---- MODULE Spec2Model ----
(***************************************************************************)
(* Model of click-cli/mycli.py: the line locator (read_line_from_file,     *)
(* file_len), the field normalizer (load_line_as_list) and the csvstats    *)
(* command that composes them.                                             *)
(*                                                                         *)
(* Text is a sequence of Unicode code points.  A file is its decoded text   *)
(* as stored; opened in text mode its line ends "\r" and "\r\n" are read   *)
(* as "\n", and iterating it yields the lines, each with its terminator.   *)
(* An optional value (a Python local that may be unbound, a function that  *)
(* may not have returned) is a sequence of length 0 or 1.                  *)
(***************************************************************************)
EXTENDS Integers, Sequences, FiniteSets

VARIABLES
    content,            \* decoded text of the file at csvfile_path, as stored
    logstyle,           \* ctx.obj['logstyle'], set by main
    console,            \* ctx.obj['console'], set by main: "None" or "Console"
    loglevel,           \* level below which the logging setup drops a message
    written,            \* text has been written to stdout or stderr
    op,                 \* entry point of this run
    pc,                 \* source position of the single thread
    current_line_num,   \* ordinal passed to read_line_from_file
    pos,                \* lines the open file iterator has yielded so far
    infile,             \* handle of read_line_from_file: none, open, closed
    line_at_line_num,   \* local of read_line_from_file; <<>> while unbound
    afile,              \* handle of file_len: "none", "open", "closed"
    linenum,            \* local of file_len; <<>> while unbound
    exc,                \* exception in flight: [kind, code]
    ret_line,           \* value returned by read_line_from_file; <<>> if none
    ret_len,            \* value returned by file_len; <<>> if none
    line,               \* argument of load_line_as_list
    values,             \* result of load_line_as_list; <<>> before the call
    exit_status,        \* exit status of the process; <<>> while running
    readFailed          \* history: the environment failed an open or a read

vars == <<content, logstyle, console, loglevel, written, op, pc,
         current_line_num, pos, infile, line_at_line_num, afile, linenum,
         exc, ret_line, ret_len, line, values, exit_status, readFailed>>

\* ------------------------------------------------------------------ bounds

MaxFileLen == 4
MaxOrdinal == 4
MaxPieces == 6
MaxWidePieces == 4

\* ------------------------------------------------------------------- text

\* Code points: "\n", "\r", "," and " ".
NL == 10
CR == 13
Comma == 44
Space == 32

\* The replacement text of lines 66 and 67, without its commas.
\* "nosuppliedvalue"
Sentinel == <<110, 111, 115, 117, 112, 112, 108, 105, 101, 100, 118, 97, 108, 117, 101>>

\* str.split() with no argument splits on runs of the characters str.isspace()
\* accepts: U+0009-000D, U+001C-0020, U+0085, U+00A0, U+1680, U+2000-200A,
\* U+2028, U+2029, U+202F, U+205F, U+3000.
Whitespace ==
    (9..13) \cup (28..32) \cup {133, 160, 5760} \cup (8192..8202)
        \cup {8232, 8233, 8239, 8287, 12288}

\* Characters of the files explored: "a", ",", "\n", "\r".
FileChars == {97, Comma, NL, CR}

SeqsUpTo(S, n) == UNION {[1..k -> S] : k \in 0..n}

FileContents == SeqsUpTo(FileChars, MaxFileLen)

\* open(..., 'r') leaves newline=None: on reading, "\r\n" and a lone "\r" are
\* each handed over as "\n".
RECURSIVE TranslateNewlines(_)
TranslateNewlines(s) ==
    IF s = <<>> THEN <<>>
    ELSE IF Head(s) = CR
         THEN <<NL>> \o TranslateNewlines(
                  IF Len(s) >= 2 /\ s[2] = NL THEN SubSeq(s, 3, Len(s))
                  ELSE Tail(s))
         ELSE <<Head(s)>> \o TranslateNewlines(Tail(s))

\* Iterating a text file: each line up to and including its "\n"; a final
\* unterminated line, when not empty, is yielded as it is.
RECURSIVE ReadLinesFrom(_, _)
ReadLinesFrom(s, cur) ==
    IF s = <<>>
    THEN IF cur = <<>> THEN <<>> ELSE <<cur>>
    ELSE IF Head(s) = NL
         THEN <<Append(cur, NL)>> \o ReadLinesFrom(Tail(s), <<>>)
         ELSE ReadLinesFrom(Tail(s), Append(cur, Head(s)))

ReadLines(s) == ReadLinesFrom(TranslateNewlines(s), <<>>)

\* A mutant of rstrip: the terminator is kept.
rstrip_kept(s, ch) == s

\* str.rstrip(ch): every trailing ch is removed.
RECURSIVE rstrip(_, _)
rstrip(s, ch) ==
    IF s # <<>> /\ s[Len(s)] = ch
    THEN rstrip(SubSeq(s, 1, Len(s) - 1), ch)
    ELSE s

\* ------------------------------------------------------- field normalizer

\* A mutant of SubLeadingComma: a leading empty field is left alone.
SubLeadingComma_skipped(s) == s

\* re.sub(r'^,', 'nosuppliedvalue,', line): the pattern matches at the start
\* of the string only.
SubLeadingComma(s) ==
    IF s # <<>> /\ Head(s) = Comma
    THEN Sentinel \o <<Comma>> \o Tail(s)
    ELSE s

\* A mutant of SubDoubleComma: matches may overlap (a lookahead pattern), so
\* every empty field of a run is repaired.
RECURSIVE SubDoubleComma_overlapping(_)
SubDoubleComma_overlapping(s) ==
    IF s = <<>> THEN <<>>
    ELSE IF Len(s) >= 2 /\ s[1] = Comma /\ s[2] = Comma
         THEN <<Comma>> \o Sentinel \o SubDoubleComma_overlapping(Tail(s))
         ELSE <<Head(s)>> \o SubDoubleComma_overlapping(Tail(s))

\* re.sub(r',,', ',nosuppliedvalue,', line_cleaned): leftmost matches that do
\* not overlap; the scan resumes after the two commas of a match, and the
\* replacement text is not scanned again.
RECURSIVE SubDoubleComma(_)
SubDoubleComma(s) ==
    IF s = <<>> THEN <<>>
    ELSE IF Len(s) >= 2 /\ s[1] = Comma /\ s[2] = Comma
         THEN <<Comma>> \o Sentinel \o <<Comma>>
                  \o SubDoubleComma(SubSeq(s, 3, Len(s)))
         ELSE <<Head(s)>> \o SubDoubleComma(Tail(s))

\* re.sub(",", " ", line_cleaned)
SubCommaSpace(s) == [i \in 1..Len(s) |-> IF s[i] = Comma THEN Space ELSE s[i]]

\* str.split(): the maximal runs of characters that are not whitespace.
RECURSIVE SplitFrom(_, _)
SplitFrom(s, cur) ==
    IF s = <<>>
    THEN IF cur = <<>> THEN <<>> ELSE <<cur>>
    ELSE IF Head(s) \in Whitespace
         THEN (IF cur = <<>> THEN <<>> ELSE <<cur>>) \o SplitFrom(Tail(s), <<>>)
         ELSE SplitFrom(Tail(s), Append(cur, Head(s)))

split(s) == SplitFrom(s, <<>>)

\* A mutant of load_line_as_list: a trailing empty field is repaired too.
load_line_as_list_trailing(l) ==
    LET c == SubDoubleComma(SubLeadingComma(l))
        d == IF c # <<>> /\ c[Len(c)] = Comma THEN c \o Sentinel ELSE c
    IN  split(SubCommaSpace(d))

\* A mutant of load_line_as_list: the first pattern has lost its anchor.
RECURSIVE SubEveryComma(_)
SubEveryComma(s) ==
    IF s = <<>> THEN <<>>
    ELSE IF Head(s) = Comma
         THEN Sentinel \o <<Comma>> \o SubEveryComma(Tail(s))
         ELSE <<Head(s)>> \o SubEveryComma(Tail(s))

load_line_as_list_unanchored(l) ==
    split(SubCommaSpace(SubDoubleComma(SubEveryComma(l))))

load_line_as_list(l) ==
    LET line_cleaned1 == SubLeadingComma(l)
        line_cleaned2 == SubDoubleComma(line_cleaned1)
    IN  split(SubCommaSpace(line_cleaned2))

\* Input lines of the normalizer: up to MaxPieces pieces, each one character
\* ("a", ",", " ") or the sentinel text, and up to MaxWidePieces pieces when
\* the vertical tab U+000B and the no-break space U+00A0 are pieces too.
Pieces == {<<97>>, <<Comma>>, <<Space>>, Sentinel}
WidePieces == Pieces \cup {<<11>>, <<160>>}

RECURSIVE Flatten(_)
Flatten(ps) == IF ps = <<>> THEN <<>> ELSE Head(ps) \o Flatten(Tail(ps))

NormLines ==
    {Flatten(ps) : ps \in SeqsUpTo(Pieces, MaxPieces)}
        \cup {Flatten(ps) : ps \in SeqsUpTo(WidePieces, MaxWidePieces)}

\* ----------------------------------------------------------- the program

NoExc == [kind |-> "none", code |-> 0]
\* Any exception derived from Exception: OSError, UnicodeDecodeError,
\* UnboundLocalError.
AnException == [kind |-> "Exception", code |-> 0]
\* sys.exit(2) raises SystemExit(2), which does not derive from Exception.
SystemExit2 == [kind |-> "SystemExit", code |-> 2]

\* Positions inside read_line_from_file and inside file_len.
RlLocs == {"rl_open", "rl_for", "rl_close", "rl_return", "rl_except"}
FlLocs == {"fl_open", "fl_for", "fl_return", "fl_except"}

\* csvstats, line 171: "except Exception".
csvstats_catches(e) == e.kind = "Exception"

\* Where a call made by this run's entry point returns to.
AfterFileLen == IF op = "csvstats" THEN "cs_142" ELSE "done"
AfterReadLine == IF op = "csvstats" THEN "cs_163" ELSE "done"
\* Where an exception leaving read_line_from_file goes: the call at line 162
\* is inside the try of csvstats; a direct call has no handler around it.
RaiseFromReadLine == IF op = "csvstats" THEN "cs_raise" ELSE "toplevel"

\* The --loglevel choices of main, line 83, as main upper-cases them.
LogLevels == {"CRITICAL", "ERROR", "WARNING", "INFO", "DEBUG", "NOTSET"}
\* The --logstyle choices of main, line 84, as main upper-cases them.
LogStyles == {"RICH", "PLAIN"}

\* The logger of line 23 passes a message on when its level is not below the
\* level in force: the one main set up, or WARNING when nothing was set up.
Emits(level) ==
    CASE level = "DEBUG" -> loglevel = "DEBUG"
      [] level = "INFO" -> loglevel \in {"DEBUG", "INFO"}
      [] level = "ERROR" -> loglevel \in {"DEBUG", "INFO", "WARNING", "ERROR"}

\* line 116: main installed the RichHandler, which writes to stdout through
\* a rich console.
RichLogging == logstyle = "RICH" /\ console = "Console"

\* What a rich console raises when the pipe it writes to is broken.
SystemExit1 == [kind |-> "SystemExit", code |-> 1]

\* The ways a log call of the given level can end.  A plain handler keeps
\* its write errors to itself; the RichHandler lets the SystemExit(1) of its
\* console through.
LogOutcomes(level) ==
    {"ok"} \cup IF RichLogging /\ Emits(level) THEN {"exit1"} ELSE {}

\* The status the process ends with: the one its end asked for, or 120 when
\* the interpreter cannot flush stdout or stderr as it shuts down.
ExitStatus(asked, flushed) == IF flushed THEN asked ELSE 120

Init ==
    /\ content \in FileContents
    /\ logstyle = "PLAIN"
    /\ console = "None"
    /\ loglevel = "WARNING"
    /\ written = FALSE
    /\ \E o \in {"csvstats", "file_len", "read_line_from_file"} :
         /\ op = o
         /\ pc = CASE o = "csvstats" -> "main"
                   [] o = "file_len" -> "fl_open"
                   [] OTHER -> "rl_open"
         /\ current_line_num \in
                IF o = "read_line_from_file" THEN 0..MaxOrdinal ELSE {0}
    /\ pos = 0
    /\ infile = "none"
    /\ line_at_line_num = <<>>
    /\ afile = "none"
    /\ linenum = <<>>
    /\ exc = NoExc
    /\ ret_line = <<>>
    /\ ret_len = <<>>
    /\ line = <<>>
    /\ values = <<>>
    /\ exit_status = <<>>
    /\ readFailed = FALSE

\* ---- file_len, lines 47-58

\* line 52: open() inside the try; it may fail.
FlOpen ==
    /\ pc = "fl_open"
    /\ \E ok \in BOOLEAN :
         IF ok
         THEN /\ afile' = "open"
              /\ pos' = 0
              /\ pc' = "fl_for"
              /\ UNCHANGED <<exc, readFailed>>
         ELSE /\ exc' = AnException
              /\ readFailed' = TRUE
              /\ pc' = "fl_except"
              /\ UNCHANGED <<afile, pos>>
    /\ UNCHANGED <<content, logstyle, console, loglevel, written, op,
                   current_line_num, infile,
                   line_at_line_num,
                   linenum, ret_line, ret_len, line, values, exit_status>>

\* lines 53-54: one step of the for loop.  The with statement closes afile
\* when the block is left, by exhaustion or by an exception.
FlFor ==
    /\ pc = "fl_for"
    /\ \E ok \in BOOLEAN :
         IF ~ok
         THEN /\ afile' = "closed"
              /\ exc' = AnException
              /\ readFailed' = TRUE
              /\ pc' = "fl_except"
              /\ UNCHANGED <<pos, linenum>>
         ELSE IF pos < Len(ReadLines(content))
              THEN /\ linenum' = <<pos>>
                   /\ pos' = pos + 1
                   /\ UNCHANGED <<afile, exc, readFailed, pc>>
              ELSE /\ afile' = "closed"
                   /\ pc' = "fl_return"
                   /\ UNCHANGED <<pos, linenum, exc, readFailed>>
    /\ UNCHANGED <<content, logstyle, console, loglevel, written, op,
                   current_line_num, infile,
                   line_at_line_num,
                   ret_line, ret_len, line, values, exit_status>>

\* line 55: return linenum + 1; linenum is unbound when the loop body never
\* ran, and reading it raises UnboundLocalError inside the try.
FlReturn ==
    /\ pc = "fl_return"
    /\ IF linenum = <<>>
       THEN /\ exc' = AnException
            /\ pc' = "fl_except"
            /\ UNCHANGED ret_len
       ELSE /\ ret_len' = <<linenum[1] + 1>>
            /\ pc' = AfterFileLen
            /\ UNCHANGED exc
    /\ UNCHANGED <<content, logstyle, console, loglevel, written, op,
                   current_line_num, pos,
                   infile, line_at_line_num,
                   afile, linenum, ret_line, line, values, exit_status,
                   readFailed>>

\* lines 56-58: log the error and sys.exit(2); when the log call itself
\* raises SystemExit(1), line 58 is not reached.  The call at line 141 is
\* outside the try of csvstats, so SystemExit reaches the top level.
FlExcept ==
    /\ pc = "fl_except"
    /\ written' = (written \/ Emits("ERROR"))
    /\ \E out \in LogOutcomes("ERROR") :
         exc' = IF out = "ok" THEN SystemExit2 ELSE SystemExit1
    /\ pc' = "toplevel"
    /\ UNCHANGED <<content, logstyle, console, loglevel, op,
                   current_line_num, pos,
                   infile, line_at_line_num,
                   afile, linenum, ret_line, ret_len, line, values, exit_status,
                   readFailed>>

\* ---- read_line_from_file, lines 26-44

\* line 36: open() inside the try; it may fail.
RlOpen ==
    /\ pc = "rl_open"
    /\ \E ok \in BOOLEAN :
         IF ok
         THEN /\ infile' = "open"
              /\ pos' = 0
              /\ pc' = "rl_for"
              /\ UNCHANGED <<exc, readFailed>>
         ELSE /\ exc' = AnException
              /\ readFailed' = TRUE
              /\ pc' = "rl_except"
              /\ UNCHANGED <<infile, pos>>
    /\ UNCHANGED <<content, logstyle, console, loglevel, written, op,
                   current_line_num,
                   line_at_line_num, afile,
                   linenum, ret_line, ret_len, line, values, exit_status>>

\* A mutant of RlFor: the loop is left as soon as the line is captured.
RlFor_break ==
    /\ pc = "rl_for"
    /\ \E ok \in BOOLEAN :
         IF ~ok
         THEN /\ exc' = AnException
              /\ readFailed' = TRUE
              /\ pc' = "rl_except"
              /\ UNCHANGED <<pos, line_at_line_num>>
         ELSE IF pos < Len(ReadLines(content))
              THEN /\ pos' = pos + 1
                   /\ IF pos = current_line_num
                      THEN /\ line_at_line_num' =
                                  <<rstrip(ReadLines(content)[pos + 1], NL)>>
                           /\ pc' = "rl_close"
                      ELSE UNCHANGED <<line_at_line_num, pc>>
                   /\ UNCHANGED <<exc, readFailed>>
              ELSE /\ pc' = "rl_close"
                   /\ UNCHANGED <<pos, line_at_line_num, exc, readFailed>>
    /\ UNCHANGED <<content, logstyle, console, loglevel, written, op,
                   current_line_num, infile,
                   afile, linenum,
                   ret_line, ret_len, line, values, exit_status>>

\* lines 37-39: one step of the for loop: the read fails, or the next line is
\* yielded and compared, or the iterator is exhausted.  The loop has no break.
\* A failing read leaves the try body at once: line 40 is not run.
RlFor ==
    /\ pc = "rl_for"
    /\ \E ok \in BOOLEAN :
         IF ~ok
         THEN /\ exc' = AnException
              /\ readFailed' = TRUE
              /\ pc' = "rl_except"
              /\ UNCHANGED <<pos, line_at_line_num>>
         ELSE IF pos < Len(ReadLines(content))
              THEN /\ pos' = pos + 1
                   /\ line_at_line_num' =
                          IF pos = current_line_num
                          THEN <<rstrip(ReadLines(content)[pos + 1], NL)>>
                          ELSE line_at_line_num
                   /\ UNCHANGED <<exc, readFailed, pc>>
              ELSE /\ pc' = "rl_close"
                   /\ UNCHANGED <<pos, line_at_line_num, exc, readFailed>>
    /\ UNCHANGED <<content, logstyle, console, loglevel, written, op,
                   current_line_num, infile,
                   afile, linenum,
                   ret_line, ret_len, line, values, exit_status>>

\* line 40: infile.close()
RlClose ==
    /\ pc = "rl_close"
    /\ infile' = "closed"
    /\ pc' = "rl_return"
    /\ UNCHANGED <<content, logstyle, console, loglevel, written, op,
                   current_line_num, pos,
                   line_at_line_num, afile,
                   linenum, exc, ret_line, ret_len, line, values, exit_status,
                   readFailed>>

\* A mutant of RlReturn: the local starts as the empty string, so an ordinal
\* that was never matched returns it.
RlReturn_default ==
    /\ pc = "rl_return"
    /\ ret_line' = <<[text |-> IF line_at_line_num = <<>> THEN <<>>
                                ELSE line_at_line_num[1],
                      ordinal |-> current_line_num]>>
    /\ pc' = AfterReadLine
    /\ UNCHANGED <<content, logstyle, console, loglevel, written, op,
                   current_line_num, pos,
                   infile, line_at_line_num,
                   afile, linenum, exc, ret_len, line, values, exit_status,
                   readFailed>>

\* line 41: return line_at_line_num, current_line_num; the local is unbound
\* when no line matched, and reading it raises UnboundLocalError inside the try.
RlReturn ==
    /\ pc = "rl_return"
    /\ IF line_at_line_num = <<>>
       THEN /\ exc' = AnException
            /\ pc' = "rl_except"
            /\ UNCHANGED ret_line
       ELSE /\ ret_line' = <<[text |-> line_at_line_num[1],
                              ordinal |-> current_line_num]>>
            /\ pc' = AfterReadLine
            /\ UNCHANGED exc
    /\ UNCHANGED <<content, logstyle, console, loglevel, written, op,
                   current_line_num, pos,
                   infile, line_at_line_num,
                   afile, linenum, ret_len, line, values, exit_status,
                   readFailed>>

\* lines 42-44: log the error and sys.exit(2); when the log call itself
\* raises SystemExit(1), line 44 is not reached.  infile is not closed here.
RlExcept ==
    /\ pc = "rl_except"
    /\ written' = (written \/ Emits("ERROR"))
    /\ \E out \in LogOutcomes("ERROR") :
         exc' = IF out = "ok" THEN SystemExit2 ELSE SystemExit1
    /\ pc' = RaiseFromReadLine
    /\ UNCHANGED <<content, logstyle, console, loglevel, op,
                   current_line_num, pos,
                   infile, line_at_line_num,
                   afile, linenum, ret_line, ret_len, line, values, exit_status,
                   readFailed>>

\* ---- main, lines 89-125

\* lines 96-125: ctx.obj['logstyle'] is the upper-cased style, and
\* ctx.obj['console'] is the string "None" unless the style is RICH and the
\* level is not NOTSET.  The level is set on the root logger by basicConfig;
\* NOTSET sets the logger of line 23 above CRITICAL instead.
Main ==
    /\ pc = "main"
    /\ \E level \in LogLevels, style \in LogStyles :
         /\ loglevel' = level
         /\ logstyle' = style
         /\ console' = IF style = "RICH" /\ level # "NOTSET"
                        THEN "Console" ELSE "None"
    /\ pc' = "cs_139"
    /\ UNCHANGED <<content, written, op, current_line_num, pos, infile,
                   line_at_line_num,
                   afile, linenum, exc, ret_line, ret_len, line, values,
                   exit_status, readFailed>>

\* ---- csvstats, lines 135-177

\* lines 139-140: a debug message, which may raise SystemExit(1), then
\* csvfile_path = pathlib.Path.cwd() / csvfile; Path.cwd() raises when the
\* working directory is gone.  Both are outside the try.
CsPath ==
    /\ pc = "cs_139"
    /\ written' = (written \/ Emits("DEBUG"))
    /\ \E out \in LogOutcomes("DEBUG") \cup {"raise"} :
         IF out = "ok"
         THEN /\ pc' = "cs_141"
              /\ UNCHANGED exc
         ELSE /\ exc' = IF out = "exit1" THEN SystemExit1 ELSE AnException
              /\ pc' = "toplevel"
    /\ UNCHANGED <<content, logstyle, console, loglevel, op, current_line_num,
                   pos, infile, line_at_line_num, afile, linenum, ret_line,
                   ret_len, line, values, exit_status, readFailed>>

\* line 141: csvfile_len = file_len(csvfile_path)
CsCallFileLen ==
    /\ pc = "cs_141"
    /\ pc' = "fl_open"
    /\ UNCHANGED <<content, logstyle, console, loglevel, written, op,
                   current_line_num, pos,
                   infile, line_at_line_num,
                   afile, linenum, exc, ret_line, ret_len, line, values,
                   exit_status, readFailed>>

\* lines 142-146: three print() calls outside the try; a failing write raises
\* out of csvstats.
CsPrintStats ==
    /\ pc = "cs_142"
    /\ written' = TRUE
    /\ \E ok \in BOOLEAN :
         IF ok
         THEN /\ pc' = "cs_147"
              /\ UNCHANGED exc
         ELSE /\ exc' = AnException
              /\ pc' = "toplevel"
    /\ UNCHANGED <<content, logstyle, console, loglevel, op,
                   current_line_num, pos,
                   infile, line_at_line_num,
                   afile, linenum, ret_line, ret_len, line, values, exit_status,
                   readFailed>>

\* line 147: time.sleep(3); another process may replace the file meanwhile,
\* by any text or by the same.
CsSleep ==
    /\ pc = "cs_147"
    /\ content' \in FileContents
    /\ pc' = "cs_155"
    /\ UNCHANGED <<logstyle, console, loglevel, written, op,
                   current_line_num, pos, infile, line_at_line_num, afile,
                   linenum, exc, ret_line, ret_len,
                   line, values, exit_status, readFailed>>

\* lines 155-157: two print() calls and an info message between them, all
\* outside the try; a failing write raises out of csvstats, and so does the
\* SystemExit(1) of the log call.
CsPrintFirst ==
    /\ pc = "cs_155"
    /\ written' = TRUE
    /\ \E out \in LogOutcomes("INFO") \cup {"raise"} :
         IF out = "ok"
         THEN /\ pc' = "cs_162"
              /\ UNCHANGED exc
         ELSE /\ exc' = IF out = "exit1" THEN SystemExit1 ELSE AnException
              /\ pc' = "toplevel"
    /\ UNCHANGED <<content, logstyle, console, loglevel, op,
                   current_line_num, pos,
                   infile, line_at_line_num,
                   afile, linenum, ret_line, ret_len, line, values, exit_status,
                   readFailed>>

\* lines 143, 159-162: current_line_num is 0; the loop over range(0, 1, 1) runs
\* once and calls read_line_from_file(csvfile_path, 0) inside the try.  The
\* progress bar of line 161 is drawn first, and a failing write of it raises
\* inside the try before the call is made.
CsCallReadLine ==
    /\ pc = "cs_162"
    /\ current_line_num' = 0
    /\ \E ok \in BOOLEAN :
         IF ok
         THEN /\ pc' = "rl_open"
              /\ UNCHANGED exc
         ELSE /\ exc' = AnException
              /\ pc' = "cs_raise"
    /\ UNCHANGED <<content, logstyle, console, loglevel, written, op, pos,
                   infile, line_at_line_num, afile, linenum, ret_line,
                   ret_len, line, values, exit_status, readFailed>>

\* lines 162-165: line, current_line_num = <the pair>; a debug message, which
\* may raise SystemExit(1) inside the try; values = load_line_as_list(line)
CsLoad ==
    /\ pc = "cs_163"
    /\ line' = ret_line[1].text
    /\ current_line_num' = ret_line[1].ordinal
    /\ \E out \in LogOutcomes("DEBUG") :
         IF out = "ok"
         THEN /\ values' = load_line_as_list(ret_line[1].text)
              /\ pc' = "cs_168"
              /\ UNCHANGED exc
         ELSE /\ exc' = SystemExit1
              /\ pc' = "cs_raise"
              /\ UNCHANGED values
    /\ UNCHANGED <<content, logstyle, console, loglevel, written, op, pos,
                   infile, line_at_line_num, afile, linenum, ret_line,
                   ret_len, exit_status, readFailed>>

\* lines 166-170: pprint(values), the log calls and the end of the progress
\* bar.  pprint writes through a rich console under either style: a failing
\* write raises inside the try, an exception or the SystemExit(1) of the
\* console.
CsPprint ==
    /\ pc = "cs_168"
    /\ \E out \in {"ok", "raise", "exit1"} :
         IF out = "ok"
         THEN /\ pc' = "done"
              /\ UNCHANGED exc
         ELSE /\ exc' = IF out = "exit1" THEN SystemExit1 ELSE AnException
              /\ pc' = "cs_raise"
    /\ UNCHANGED <<content, logstyle, console, loglevel, written, op,
                   current_line_num, pos,
                   infile, line_at_line_num,
                   afile, linenum, ret_line, ret_len, line, values, exit_status,
                   readFailed>>

\* line 171: an exception leaving the try body enters the handler when the
\* except clause matches it, and leaves csvstats otherwise.
CsExcept ==
    /\ pc = "cs_raise"
    /\ IF csvstats_catches(exc)
       THEN /\ exc' = NoExc
            /\ pc' = "cs_173"
       ELSE /\ pc' = "toplevel"
            /\ UNCHANGED exc
    /\ UNCHANGED <<content, logstyle, console, loglevel, written, op,
                   current_line_num, pos,
                   infile, line_at_line_num,
                   afile, linenum, ret_line, ret_len, line, values, exit_status,
                   readFailed>>

\* lines 173-177: the handler prints the traceback, through the console when
\* the style is RICH and with print() otherwise, and the command then ends
\* normally.  The string "None" has no print_exception (AttributeError), and
\* either write may fail, the console's also with SystemExit(1): the new
\* exception leaves csvstats.
CsHandler ==
    /\ pc = "cs_173"
    /\ \E out \in IF logstyle # "RICH" THEN {"ok", "raise"}
                   ELSE IF console = "None" THEN {"raise"}
                   ELSE {"ok", "raise", "exit1"} :
         IF out = "ok"
         THEN /\ pc' = "done"
              /\ UNCHANGED exc
         ELSE /\ exc' = IF out = "exit1" THEN SystemExit1 ELSE AnException
              /\ pc' = "toplevel"
    /\ UNCHANGED <<content, logstyle, console, loglevel, written, op,
                   current_line_num, pos,
                   infile, line_at_line_num,
                   afile, linenum, ret_line, ret_len, line, values, exit_status,
                   readFailed>>

\* ---- the interpreter, line 181

\* An exception nothing handled ends the process: SystemExit(n) asks for
\* status n, any other has its traceback written to stderr and asks for
\* status 1.  The final flush can fail when something has been written.
Uncaught ==
    /\ pc = "toplevel"
    /\ written' = (written \/ exc.kind # "SystemExit")
    /\ \E flushed \in BOOLEAN :
         exit_status' =
             <<ExitStatus(IF exc.kind = "SystemExit" THEN exc.code ELSE 1,
                          flushed \/ ~written')>>
    /\ pc' = "exited"
    /\ UNCHANGED <<content, logstyle, console, loglevel, op,
                   current_line_num, pos,
                   infile, line_at_line_num,
                   afile, linenum, exc, ret_line, ret_len, line, values,
                   readFailed>>

\* The entry point returned: the process asks for status 0.  The final flush
\* can fail when something has been written.
Finish ==
    /\ pc = "done"
    /\ op # "load_line_as_list"
    /\ \E flushed \in BOOLEAN :
         exit_status' = <<ExitStatus(0, flushed \/ ~written)>>
    /\ pc' = "exited"
    /\ UNCHANGED <<content, logstyle, console, loglevel, written, op,
                   current_line_num, pos,
                   infile, line_at_line_num,
                   afile, linenum, exc, ret_line, ret_len, line, values,
                   readFailed>>

Next ==
    \/ FlOpen \/ FlFor \/ FlReturn \/ FlExcept
    \/ RlOpen \/ RlFor \/ RlClose \/ RlReturn \/ RlExcept
    \/ Main \/ CsPath \/ CsCallFileLen \/ CsPrintStats \/ CsSleep \/ CsPrintFirst
    \/ CsCallReadLine \/ CsLoad \/ CsPprint \/ CsExcept \/ CsHandler
    \/ Uncaught \/ Finish

Spec == Init /\ [][Next]_vars

\* ---- the normalizer on its own: load_line_as_list applied to a line

NormInit ==
    /\ line \in NormLines
    /\ op = "load_line_as_list"
    /\ pc = "ll_call"
    /\ content = <<>>
    /\ logstyle = "PLAIN"
    /\ console = "None"
    /\ loglevel = "WARNING"
    /\ written = FALSE
    /\ current_line_num = 0
    /\ pos = 0
    /\ infile = "none"
    /\ line_at_line_num = <<>>
    /\ afile = "none"
    /\ linenum = <<>>
    /\ exc = NoExc
    /\ ret_line = <<>>
    /\ ret_len = <<>>
    /\ values = <<>>
    /\ exit_status = <<>>
    /\ readFailed = FALSE

\* lines 61-70: the three substitutions and the split, as one call.
LoadLineAsList ==
    /\ pc = "ll_call"
    /\ values' = load_line_as_list(line)
    /\ pc' = "done"
    /\ UNCHANGED <<content, logstyle, console, loglevel, written, op,
                   current_line_num, pos,
                   infile, line_at_line_num,
                   afile, linenum, exc, ret_line, ret_len, line, exit_status,
                   readFailed>>

NormNext == LoadLineAsList

NormSpec == NormInit /\ [][NormNext]_vars

\* ------------------------------------------- notions the claims are stated in

Last(s) == s[Len(s)]
Front(s) == SubSeq(s, 1, Len(s) - 1)

\* The separator-delimited positions of s: one more than the separators in it.
RECURSIVE SplitOnFrom(_, _, _)
SplitOnFrom(s, sep, cur) ==
    IF s = <<>> THEN <<cur>>
    ELSE IF Head(s) = sep
         THEN <<cur>> \o SplitOnFrom(Tail(s), sep, <<>>)
         ELSE SplitOnFrom(Tail(s), sep, Append(cur, Head(s)))

SplitOn(s, sep) == SplitOnFrom(s, sep, <<>>)

CountOf(s, ch) == Cardinality({i \in 1..Len(s) : s[i] = ch})

\* The records of a file, terminators removed: the terminated ones and a
\* final unterminated one when present.  A line terminator is "\n", "\r\n"
\* or a "\r" that no "\n" follows.
RECURSIVE RecordsFrom(_, _)
RecordsFrom(s, cur) ==
    IF s = <<>> THEN (IF cur = <<>> THEN <<>> ELSE <<cur>>)
    ELSE IF Len(s) >= 2 /\ s[1] = CR /\ s[2] = NL
         THEN <<cur>> \o RecordsFrom(SubSeq(s, 3, Len(s)), <<>>)
         ELSE IF Head(s) \in {NL, CR}
              THEN <<cur>> \o RecordsFrom(Tail(s), <<>>)
              ELSE RecordsFrom(Tail(s), Append(cur, Head(s)))

Records(c) == RecordsFrom(c, <<>>)

\* The newlines of a file: its line terminators, "\r\n" counting once.
Newlines(c) ==
    CountOf(c, NL) + CountOf(c, CR)
        - Cardinality({i \in 1..(Len(c) - 1) : c[i] = CR /\ c[i + 1] = NL})

\* N for an empty file or one that ends with a newline, N + 1 otherwise.
ExpectedLen(c) ==
    IF c = <<>> \/ Last(c) \in {NL, CR} THEN Newlines(c) ELSE Newlines(c) + 1

\* One entry per comma-separated position: the field, or the sentinel when
\* the field is empty.
ExpectedFields(l) ==
    LET F == SplitOn(l, Comma)
    IN  [i \in 1..Len(F) |-> IF F[i] = <<>> THEN Sentinel ELSE F[i]]

RECURSIVE Join(_)
Join(vs) ==
    IF vs = <<>> THEN <<>>
    ELSE IF Len(vs) = 1 THEN vs[1]
         ELSE vs[1] \o <<Comma>> \o Join(Tail(vs))

Commas(k) == [i \in 1..k |-> Comma]
Sentinels(n) == [i \in 1..n |-> Sentinel]
WhitespaceFree(f) == \A i \in 1..Len(f) : f[i] \notin Whitespace

\* The call of read_line_from_file of this run has ended.  csvstats makes it
\* after file_len has returned; from then on a handle or a failed read is
\* that call's.
RlEnded ==
    /\ pc \notin RlLocs
    /\ \/ op = "read_line_from_file"
       \/ op = "csvstats" /\ ret_len # <<>> /\ (infile # "none" \/ readFailed)

\* The call of file_len of this run has been made and has ended, and the file
\* is still the one it read (csvstats has not reached the sleep of line 147).
\* A call that was made has opened the file or failed to.
FlEnded ==
    /\ pc \notin FlLocs
    /\ \/ op = "file_len"
       \/ op = "csvstats" /\ pc \in {"cs_142", "cs_147"}
       \/ /\ op = "csvstats" /\ pc \in {"toplevel", "exited"}
          /\ ret_len = <<>>
          /\ (afile # "none" \/ readFailed)

\* load_line_as_list has been applied to line.
NormDone == op = "load_line_as_list" /\ pc = "done"

\* ------------------------------------------------------------------ claims

\* C1: when no read fails and the ordinal o is below the number of records,
\* read_line_from_file returns the pair of the (o+1)-th record's text without
\* its terminator and o.
C1_ReadLineReturnsRecord ==
    (RlEnded /\ ~readFailed /\ current_line_num < Len(Records(content)))
    => ret_line = <<[text |-> Records(content)[current_line_num + 1],
                     ordinal |-> current_line_num]>>

C1_Witness ==
    /\ op = "read_line_from_file" /\ pc = "exited" /\ ~readFailed
    /\ current_line_num = 1 /\ Len(Records(content)) >= 3
    /\ ret_line # <<>> /\ ret_line[1].text # <<>>
    /\ exit_status = <<0>>

\* The exceptions a failing call of read_line_from_file or file_len ends
\* with: SystemExit(2) of its handler, or SystemExit(1) when the handler's log
\* call goes through the RichHandler and is not filtered out.
ExitSignals ==
    {SystemExit2}
        \cup IF RichLogging /\ Emits("ERROR") THEN {SystemExit1} ELSE {}

\* C2: for an ordinal at or beyond the number of records (an empty file
\* included) read_line_from_file returns no pair; the call ends with a
\* SystemExit of non-zero code (2, or 1 from the rich log call), which the
\* except clause of csvstats does not match, and the process ends with a
\* non-zero status: that code, or 120.
C2_OutOfRangeExits ==
    (RlEnded /\ current_line_num >= Len(Records(content)))
    => /\ ret_line = <<>>
       /\ exc \in ExitSignals
       /\ exc.kind = "SystemExit" /\ exc.code # 0
       /\ ~csvstats_catches(exc)
       /\ pc \in {"cs_raise", "toplevel", "exited"}
       /\ pc = "exited" => /\ exit_status \in {<<exc.code>>, <<120>>}
                           /\ exit_status # <<0>>

\* csvstats, the file emptied while it slept: the call inside the try finds
\* no line 0, and the process ends with status 2.
C2_Witness ==
    /\ op = "csvstats" /\ pc = "exited" /\ RlEnded /\ ~readFailed
    /\ current_line_num >= Len(Records(content))
    /\ infile = "closed" /\ exit_status = <<2>>

\* C3 (as claimed): when no read fails, file_len returns the number of
\* records: N for an empty file or a file ending with a newline, N + 1 with a
\* final unterminated line.
C3_FileLenCountsRecords ==
    (FlEnded /\ ~readFailed) => ret_len = <<ExpectedLen(content)>>

\* C4 (as claimed): the result has one entry per comma-separated position of
\* the line, the field itself or the sentinel for an empty one.  The claim
\* is stated here for the non-empty lines without whitespace; C6 treats the
\* empty line.
C4_NoFieldDropped ==
    (NormDone /\ line # <<>> /\ WhitespaceFree(line))
    => values = ExpectedFields(line)

\* The lines C5 is about.
C5Pre(l) ==
    /\ l # <<>>
    /\ Last(l) # Comma
    /\ \A i \in 1..(Len(l) - 2) : SubSeq(l, i, i + 2) # Commas(3)
    /\ WhitespaceFree(l)

\* C5: for a non-empty line that does not end with a comma, has no run of
\* more than two commas and no whitespace in its fields, the result is one
\* entry per position: the field, or the sentinel for an empty field.
C5_SingleGapsRepaired ==
    (NormDone /\ C5Pre(line)) => values = ExpectedFields(line)

C5_Witness ==
    /\ NormDone /\ C5Pre(line)
    /\ Len(line) >= 3 /\ line[1] = Comma /\ line[2] = Comma
    /\ Len(values) = 3 /\ values[1] = Sentinel /\ values[2] = Sentinel

\* C6: the empty line gives the empty sequence, and a line s followed by one
\* comma, s non-empty and not ending with a comma, gives what s gives.
C6_TrailingEmptyDropped ==
    NormDone =>
        /\ line = <<>> => values = <<>>
        /\ (Len(line) >= 2 /\ Last(line) = Comma /\ line[Len(line) - 1] # Comma)
           => values = load_line_as_list(Front(line))

C6_Witness ==
    /\ NormDone
    /\ Len(line) >= 2 /\ Last(line) = Comma /\ line[Len(line) - 1] # Comma
    /\ Len(values) = 2 /\ CountOf(line, Comma) = 2 /\ WhitespaceFree(line)

\* The lines C7 is about.
NoSentinelField(l) ==
    \A i \in 1..Len(SplitOn(l, Comma)) : SplitOn(l, Comma)[i] # Sentinel

\* C7: when no field of the line is the sentinel text, normalizing the
\* comma-joined result gives the result again.
C7_Idempotent ==
    (NormDone /\ NoSentinelField(line))
    => load_line_as_list(Join(values)) = values

C7_Witness ==
    /\ NormDone /\ NoSentinelField(line)
    /\ Len(values) >= 3
    /\ \E i \in 1..Len(values) : values[i] = Sentinel
    /\ \E i \in 1..Len(values) : values[i] # Sentinel

\* C8: a run of k >= 3 commas between two non-empty whitespace-free fields
\* yields exactly k \div 2 sentinel entries between those two fields, fewer
\* than the k - 1 empty fields of the run, and the call returns.
C8_LongRunsPartlyRepaired ==
    NormDone =>
        \A i \in 2..Len(line) : \A k \in 3..Len(line) :
            LET A == SubSeq(line, 1, i - 1)
                B == SubSeq(line, i + k, Len(line))
                fa == Last(SplitOn(A, Comma))
                fb == Head(SplitOn(B, Comma))
            IN  (/\ i + k <= Len(line)
                 /\ SubSeq(line, i, i + k - 1) = Commas(k)
                 /\ fa # <<>> /\ WhitespaceFree(fa)
                 /\ fb # <<>> /\ WhitespaceFree(fb))
                => /\ values = load_line_as_list(A) \o Sentinels(k \div 2)
                                   \o load_line_as_list(B)
                   /\ Last(load_line_as_list(A)) = fa
                   /\ Head(load_line_as_list(B)) = fb
                   /\ k \div 2 < k - 1

C8_Witness ==
    /\ NormDone
    /\ line = <<97>> \o Commas(4) \o <<97>>
    /\ values = <<<<97>>, Sentinel, Sentinel, <<97>>>>

\* C9: read_line_from_file returns only after the iterator has yielded every
\* record, and a failed read, at whatever record, ends the call with no
\* returned pair and a SystemExit of non-zero code (2, or 1 from the rich log
\* call), so that the process ends with a non-zero status.
C9_FullScan ==
    /\ ret_line # <<>> => pos = Len(Records(content))
    /\ (RlEnded /\ readFailed)
       => /\ ret_line = <<>>
          /\ exc \in ExitSignals
          /\ exc.code \in {1, 2}
          /\ pc \in {"cs_raise", "toplevel", "exited"}
          /\ pc = "exited" => exit_status \in {<<exc.code>>, <<120>>}

C9_Witness ==
    /\ op = "read_line_from_file" /\ pc = "exited" /\ readFailed
    /\ line_at_line_num # <<>> /\ pos > current_line_num + 1
    /\ ret_line = <<>> /\ exit_status = <<2>>

\* C10 (as claimed): once control has left read_line_from_file or file_len,
\* by a return or by an exception, the handle the call opened is not open.
C10_HandlesReleased ==
    /\ pc \notin RlLocs => infile # "open"
    /\ pc \notin FlLocs => afile # "open"

====
